---- MODULE Spec2Model ----
(***************************************************************************)
(* A model of pdumpf.py: convert_pdf_to_ppms(pdf_path, output_dir, dpi).   *)
(* One invocation of the function is a run of the state machine: it checks *)
(* the input path, creates the output directory, runs pdftoppm once,       *)
(* reads the page count off the tool's stderr and renames the tool's       *)
(* page-N-N.ppm files to page-N.ppm.                                       *)
(*                                                                         *)
(* The file system is the part the function reads and writes: whether the  *)
(* pdf exists, whether the output directory exists (or can be created),    *)
(* and the directory's entries with their content.  os.rename follows the  *)
(* POSIX rule (the script starts with #!/usr/bin/env python3): a           *)
(* destination that exists is replaced.  pdftoppm is an opaque subprocess: *)
(* its exit status, its stderr lines and the set of files it writes are    *)
(* chosen freely.                                                          *)
(***************************************************************************)
EXTENDS Integers, Sequences, FiniteSets

\* Largest page number the tool writes or reports.
MaxPage == 3
\* Largest number of stderr lines of one tool run.
MaxLines == 3

VARIABLES
    phase,          \* position of the invocation in convert_pdf_to_ppms
    error,          \* kind of the failure, "None" while there is none
    handled,        \* FALSE when the failure is an exception leaving the function
    pdfExists,      \* os.path.exists(pdf_path)
    toolInstalled,  \* pdftoppm is on the PATH
    dirCreatable,   \* os.makedirs(output_dir) can succeed
    dirExists,      \* output_dir exists
    files,          \* entries of output_dir: name -> "absent" | "old" | "new"
    dirExists0,     \* dirExists when the function was called
    files0,         \* files when the function was called
    produced,       \* pages whose page-N-N.ppm the tool wrote in this run
    invocations,    \* number of subprocess.run calls made
    result,         \* the CompletedProcess: returncode and stderr lines
    num_pages,      \* local num_pages
    page,           \* loop variable of the rename loop, 0 before the loop
    renamed,        \* pages whose file the loop renamed
    warnings        \* pages for which the loop printed the warning

vars == <<phase, error, handled, pdfExists, toolInstalled, dirCreatable,
          dirExists, files, dirExists0, files0, produced, invocations,
          result, num_pages, page, renamed, warnings>>

env == <<pdfExists, toolInstalled, dirCreatable, dirExists0, files0>>
loop == <<num_pages, page, renamed, warnings>>

Pages == 1..MaxPage

\* f"page-{page}-{page}.ppm": the name pdftoppm is taken to give page's file.
OldPpmPath(p) == <<"page", p, p>>

\* f"page-{page}.ppm": the name the loop gives page's file.
NewPpmPath(p) == <<"page", p>>

\* An entry of the directory that is no page file.
OtherFile == <<"notes">>

Names == {OldPpmPath(p) : p \in Pages} \cup {NewPpmPath(p) : p \in Pages}
            \cup {OtherFile}

\* Names that may be in the directory before the call: an earlier run's
\* files of page 1 and an unrelated file.
EarlierNames == {OldPpmPath(1), NewPpmPath(1), OtherFile}

EmptyDir == [n \in Names |-> "absent"]

\* os.path.exists(path) for a path inside output_dir.
PathExists(fs, n) == fs[n] # "absent"

Entries(fs) == {n \in Names : PathExists(fs, n)}

\* A stderr line: one that "Page (\d+)/(\d+)" matches, with the number its
\* second group denotes, or one it does not match.
ProgressLine(total) == [matches |-> TRUE, total |-> total]
OtherLine == [matches |-> FALSE, total |-> 0]
Lines == {OtherLine} \cup {ProgressLine(t) : t \in 0..MaxPage}

SeqsUpTo(S, n) == UNION {[1..k -> S] : k \in 0..n}

NoResult == [ran |-> FALSE, returncode |-> 0, stderr |-> <<>>]

Init ==
    /\ phase = "Idle"
    /\ error = "None"
    /\ handled = TRUE
    /\ pdfExists \in BOOLEAN
    /\ toolInstalled \in BOOLEAN
    /\ dirExists0 \in BOOLEAN
    /\ dirCreatable \in BOOLEAN
    /\ dirExists0 => dirCreatable
    /\ files0 \in [Names -> {"absent", "old"}]
    /\ Entries(files0) \subseteq EarlierNames
    /\ ~dirExists0 => files0 = EmptyDir
    /\ dirExists = dirExists0
    /\ files = files0
    /\ produced = {}
    /\ invocations = 0
    /\ result = NoResult
    /\ num_pages = 0
    /\ page = 0
    /\ renamed = {}
    /\ warnings = {}

\* A return or an exception: the invocation ends in Failed(kind).
Fail(kind, caught) ==
    /\ phase' = "Failed"
    /\ error' = kind
    /\ handled' = caught

Call ==
    /\ phase = "Idle"
    /\ phase' = "ValidatingInput"
    /\ UNCHANGED <<error, handled, env, dirExists, files, produced,
                   invocations, result, loop>>

\* ValidateInput without the return of line 21: the error is printed and the
\* function goes on.
ValidateInputNoReturn ==
    /\ phase = "ValidatingInput"
    /\ phase' = "PreparingOutputDir"
    /\ UNCHANGED <<error, handled>>
    /\ UNCHANGED <<env, dirExists, files, produced, invocations, result, loop>>

\* Line 19: the function goes on only when os.path.exists(pdf_path).
ValidateInput ==
    /\ phase = "ValidatingInput"
    /\ IF pdfExists
         THEN /\ phase' = "PreparingOutputDir"
              /\ UNCHANGED <<error, handled>>
         ELSE Fail("InputNotFound", TRUE)
    /\ UNCHANGED <<env, dirExists, files, produced, invocations, result, loop>>

\* PrepareOutputDir without the os.makedirs call.
PrepareOutputDirNoCreate ==
    /\ phase = "PreparingOutputDir"
    /\ phase' = "InvokingExternalTool"
    /\ UNCHANGED <<error, handled, dirExists>>
    /\ UNCHANGED <<env, files, produced, invocations, result, loop>>

\* Line 24: os.makedirs(output_dir, exist_ok=True), outside the try block:
\* an OSError it raises leaves the function uncaught.
PrepareOutputDir ==
    /\ phase = "PreparingOutputDir"
    /\ IF dirExists \/ dirCreatable
         THEN /\ phase' = "InvokingExternalTool"
              /\ dirExists' = TRUE
              /\ UNCHANGED <<error, handled>>
         ELSE /\ Fail("IOError", FALSE)
              /\ UNCHANGED dirExists
    /\ UNCHANGED <<env, files, produced, invocations, result, loop>>

\* pdftoppm writes the file of each page in P under the prefix of line 39,
\* replacing a file of that name.
ToolWrite(fs, P) ==
    [n \in Names |-> IF \E p \in P : n = OldPpmPath(p) THEN "new" ELSE fs[n]]

\* subprocess.run without check=True: no exit status raises.
CheckIgnored(returncode) == FALSE

\* Line 42: check=True makes subprocess.run raise CalledProcessError on a
\* non-zero exit status.
CheckRaises(returncode) == returncode # 0

\* InvokeTool with one retry of a run that exits non-zero.
InvokeToolRetry ==
    /\ phase = "InvokingExternalTool"
    /\ invocations' = invocations + 1
    /\ IF ~toolInstalled
         THEN /\ Fail("ExternalToolMissing", TRUE)
              /\ UNCHANGED <<files, produced, result>>
         ELSE \E P \in SUBSET Pages, rc \in {0, 1},
                 err \in SeqsUpTo(Lines, MaxLines) :
                /\ files' = ToolWrite(files, P)
                /\ produced' = P
                /\ result' = [ran |-> TRUE, returncode |-> rc, stderr |-> err]
                /\ IF rc # 0 /\ invocations = 0
                     THEN UNCHANGED <<phase, error, handled>>
                     ELSE IF rc # 0
                       THEN Fail("ExternalToolFailure", TRUE)
                       ELSE /\ phase' = "InterpretingOutput"
                            /\ UNCHANGED <<error, handled>>
    /\ UNCHANGED <<env, dirExists, loop>>

\* Lines 41-43 with the handlers of lines 78-89: one subprocess.run.  A
\* missing binary raises FileNotFoundError before anything runs; otherwise
\* the tool writes some files, prints some lines and exits.
InvokeTool ==
    /\ phase = "InvokingExternalTool"
    /\ invocations' = invocations + 1
    /\ IF ~toolInstalled
         THEN /\ Fail("ExternalToolMissing", TRUE)
              /\ UNCHANGED <<files, produced, result>>
         ELSE \E P \in SUBSET Pages, rc \in {0, 1},
                 err \in SeqsUpTo(Lines, MaxLines) :
                /\ files' = ToolWrite(files, P)
                /\ produced' = P
                /\ result' = [ran |-> TRUE, returncode |-> rc, stderr |-> err]
                /\ IF CheckRaises(rc)
                     THEN Fail("ExternalToolFailure", TRUE)
                     ELSE /\ phase' = "InterpretingOutput"
                          /\ UNCHANGED <<error, handled>>
    /\ UNCHANGED <<env, dirExists, loop>>

\* Lines 46-51: num_pages starts at 0; the first line the pattern matches
\* sets it to the line's total and ends the scan.
RECURSIVE ParsePageCount(_)
ParsePageCount(lines) ==
    IF lines = <<>> THEN 0
    ELSE IF Head(lines).matches THEN Head(lines).total
    ELSE ParsePageCount(Tail(lines))

\* InterpretOutput without the return of line 55.
InterpretOutputNoReturn ==
    /\ phase = "InterpretingOutput"
    /\ num_pages' = ParsePageCount(result.stderr)
    /\ phase' = "NormalizingFilenames"
    /\ page' = 1
    /\ UNCHANGED <<error, handled>>
    /\ UNCHANGED <<env, dirExists, files, produced, invocations, result,
                   renamed, warnings>>

\* Lines 46-59: the page count, and the return when it is 0.
InterpretOutput ==
    /\ phase = "InterpretingOutput"
    /\ num_pages' = ParsePageCount(result.stderr)
    /\ IF num_pages' = 0
         THEN /\ Fail("PageCountUnavailable", TRUE)
              /\ UNCHANGED page
         ELSE /\ phase' = "NormalizingFilenames"
              /\ page' = 1
              /\ UNCHANGED <<error, handled>>
    /\ UNCHANGED <<env, dirExists, files, produced, invocations, result,
                   renamed, warnings>>

\* A copy in place of the rename: the source stays.
RenameKeepsOld(fs, old, new) == [fs EXCEPT ![new] = fs[old]]

\* os.rename with its arguments exchanged.
RenameSwapped(fs, old, new) == [fs EXCEPT ![old] = fs[new], ![new] = "absent"]

\* Line 70: os.rename(old, new): new gets old's content, replacing what was
\* there, and old is gone.
Rename(fs, old, new) == [fs EXCEPT ![new] = fs[old], ![old] = "absent"]

\* RenameStep with a missing file ending the loop and the invocation.
RenameStepAbortsOnMissing ==
    /\ phase = "NormalizingFilenames"
    /\ page <= num_pages
    /\ IF PathExists(files, OldPpmPath(page))
         THEN /\ files' = [files EXCEPT ![NewPpmPath(page)] = files[OldPpmPath(page)],
                                        ![OldPpmPath(page)] = "absent"]
              /\ renamed' = renamed \cup {page}
              /\ page' = page + 1
              /\ UNCHANGED <<phase, error, handled>>
         ELSE /\ Fail("RenameWarning", TRUE)
              /\ UNCHANGED <<files, renamed, page>>
    /\ UNCHANGED <<env, dirExists, produced, invocations, result, num_pages,
                   warnings>>

\* Lines 62-74: one iteration of the loop over range(1, num_pages + 1).
RenameStep ==
    /\ phase = "NormalizingFilenames"
    /\ page <= num_pages
    /\ IF PathExists(files, OldPpmPath(page))
         THEN /\ files' = Rename(files, OldPpmPath(page), NewPpmPath(page))
              /\ renamed' = renamed \cup {page}
              /\ UNCHANGED warnings
         ELSE /\ warnings' = warnings \cup {page}
              /\ UNCHANGED <<files, renamed>>
    /\ page' = page + 1
    /\ UNCHANGED <<phase, error, handled, env, dirExists, produced,
                   invocations, result, num_pages>>

\* Line 76: the loop is exhausted and the function returns.
Finish ==
    /\ phase = "NormalizingFilenames"
    /\ page > num_pages
    /\ phase' = "Done"
    /\ UNCHANGED <<error, handled, env, dirExists, files, produced,
                   invocations, result, loop>>

Next ==
    \/ Call
    \/ ValidateInput
    \/ PrepareOutputDir
    \/ InvokeTool
    \/ InterpretOutput
    \/ RenameStep
    \/ Finish

Spec == Init /\ [][Next]_vars

(***************************************************************************)
(* Vocabulary of the properties.                                           *)
(***************************************************************************)

\* The directory as the tool left it: what the rename loop starts from.
AfterTool == ToolWrite(files0, produced)

\* The stderr lines the pattern matches.
ProgressTotals(lines) == {lines[i].total : i \in {j \in 1..Len(lines) : lines[j].matches}}

HasProgress(lines) == ProgressTotals(lines) # {}

MaxTotal(lines) ==
    CHOOSE m \in ProgressTotals(lines) : \A t \in ProgressTotals(lines) : t <= m

ToolSucceeded == result.ran /\ result.returncode = 0

Terminated == phase \in {"Done", "Failed"}

Canonical(N) == {NewPpmPath(p) : p \in 1..N}

Native(N) == {OldPpmPath(p) : p \in 1..N}

\* C1: when the pdf path does not exist, the invocation ends in
\* Failed(InputNotFound), reported by the function, and nothing is written:
\* the output directory is as it was (not created, same entries), the tool
\* was never run and no file was renamed.
C1_InputNotFound ==
    (~pdfExists /\ phase \notin {"Idle", "ValidatingInput"}) =>
        /\ phase = "Failed" /\ error = "InputNotFound" /\ handled
        /\ dirExists = dirExists0
        /\ files = files0
        /\ invocations = 0 /\ ~result.ran
        /\ renamed = {} /\ warnings = {}

\* C1's case: the missing pdf was reported although the directory could have
\* been created and the tool could have been run.
C1_Witness ==
    /\ ~pdfExists /\ phase = "Failed" /\ error = "InputNotFound"
    /\ ~dirExists0 /\ dirCreatable /\ toolInstalled

\* C2 (as stated): after a successful tool run whose stderr has at least one
\* "Page d/t" line, the page count the invocation goes on with is the largest
\* t of those lines, whatever their order.
C2_MaxTotal ==
    (ToolSucceeded /\ HasProgress(result.stderr)
        /\ phase \in {"NormalizingFilenames", "Done"})
    => num_pages = MaxTotal(result.stderr)

\* C3: when the tool exits with status 0 and no stderr line matches, the
\* invocation ends in Failed(PageCountUnavailable), nothing is renamed and the
\* directory is as the tool left it.
C3_PageCountUnavailable ==
    (ToolSucceeded /\ ~HasProgress(result.stderr)
        /\ phase # "InterpretingOutput")
    => /\ phase = "Failed" /\ error = "PageCountUnavailable" /\ handled
       /\ renamed = {} /\ warnings = {} /\ page = 0
       /\ files = AfterTool

\* C3's case: the tool wrote files and printed lines, none of them a
\* progress line.
C3_Witness ==
    /\ ToolSucceeded /\ result.stderr # <<>> /\ ~HasProgress(result.stderr)
    /\ phase = "Failed" /\ error = "PageCountUnavailable"
    /\ produced = Pages
    /\ \A p \in Pages : files[OldPpmPath(p)] = "new"

\* C4 (as stated): a run into an empty directory that reaches Done with page
\* count N leaves exactly page-1.ppm .. page-N.ppm in the directory.
C4_ExactlyCanonical ==
    (phase = "Done" /\ Entries(files0) = {}) =>
        Entries(files) = Canonical(num_pages)

\* C4 (amended): a run into an empty directory that reaches Done with page
\* count N leaves no native name page-p-p.ppm with p in 1..N, and leaves
\* page-p.ppm exactly for the pages p in 1..N whose file the tool wrote (the
\* tool's files of pages beyond N keep their native names); so when the tool
\* wrote exactly the pages 1..N the directory holds exactly
\* page-1.ppm .. page-N.ppm.
C4_CanonicalOfProduced ==
    (phase = "Done" /\ Entries(files0) = {}) =>
        /\ num_pages >= 1
        /\ Entries(files) \cap Native(num_pages) = {}
        /\ Entries(files) =
              {NewPpmPath(p) : p \in produced \cap 1..num_pages}
                 \cup {OldPpmPath(q) : q \in produced \ 1..num_pages}
        /\ produced = 1..num_pages => Entries(files) = Canonical(num_pages)

\* C4's case: three pages written, three counted, three renamed.
C4_Witness ==
    /\ phase = "Done" /\ Entries(files0) = {}
    /\ num_pages = 3 /\ produced = 1..3
    /\ Entries(files) = {NewPpmPath(1), NewPpmPath(2), NewPpmPath(3)}

\* C5: a missing page-p-p.ppm only adds a warning.  Once the loop has
\* started the invocation never fails and stops only in Done; at Done every
\* page of 1..N was visited (renamed or warned about), the warned pages are
\* those whose native file did not exist, and every native file that existed
\* is now under its canonical name with its content, also after a missing
\* page.
C5_MissingFileIsWarning ==
    /\ page >= 1 => phase \in {"NormalizingFilenames", "Done"}
    /\ (page >= 1 /\ ~ENABLED Next) => phase = "Done"
    /\ phase = "Done" =>
          /\ renamed \cup warnings = 1..num_pages
          /\ \A q \in 1..num_pages :
                IF PathExists(AfterTool, OldPpmPath(q))
                  THEN /\ q \in renamed /\ q \notin warnings
                       /\ files[NewPpmPath(q)] = AfterTool[OldPpmPath(q)]
                       /\ ~PathExists(files, OldPpmPath(q))
                  ELSE q \in warnings /\ q \notin renamed

\* C5's case: a page was missing and a later page was still renamed.
C5_Witness ==
    /\ phase = "Done"
    /\ \E w \in warnings : \E r \in renamed :
          w < r /\ files[NewPpmPath(r)] = "new"

\* C6: when the pdf exists and pdftoppm is not found, the invocation ends in
\* Failed(ExternalToolMissing), reported by the function, with the output
\* directory existing and its entries as they were before the call: nothing
\* written, nothing renamed.
C6_ToolMissing ==
    /\ (~toolInstalled /\ invocations > 0) =>
          /\ pdfExists
          /\ phase = "Failed" /\ error = "ExternalToolMissing" /\ handled
          /\ dirExists
          /\ files = files0 /\ produced = {} /\ ~result.ran
          /\ renamed = {} /\ warnings = {}
    /\ (pdfExists /\ ~toolInstalled /\ (dirExists0 \/ dirCreatable)
           /\ ~ENABLED Next)
       => (phase = "Failed" /\ error = "ExternalToolMissing" /\ dirExists)

\* C6's case: the directory did not exist before the call and does now.
C6_Witness ==
    /\ pdfExists /\ ~toolInstalled /\ ~dirExists0
    /\ phase = "Failed" /\ error = "ExternalToolMissing" /\ dirExists
    /\ Entries(files) = {}

\* C7: a non-zero exit status ends the invocation in
\* Failed(ExternalToolFailure): stderr is not parsed, nothing is renamed (the
\* tool's files keep their names), the tool ran once.  For every kind of
\* failure the invocation stops there: no later step is enabled, the tool ran
\* at most once, no file was renamed, and a failure before the tool's run
\* left the tool unrun.
C7_FailureAborts ==
    /\ (result.ran /\ result.returncode # 0) =>
          /\ phase = "Failed" /\ error = "ExternalToolFailure" /\ handled
          /\ num_pages = 0 /\ page = 0
          /\ renamed = {} /\ warnings = {}
          /\ files = AfterTool
          /\ invocations = 1
    /\ phase = "Failed" =>
          /\ ~ENABLED Next
          /\ invocations <= 1
          /\ renamed = {} /\ warnings = {} /\ page = 0
          /\ files = AfterTool
          /\ error \in {"InputNotFound", "IOError"} =>
                (invocations = 0 /\ files = files0)
          /\ error = "InputNotFound" => dirExists = dirExists0

\* C7's case: the tool wrote files and reported pages, then exited non-zero.
C7_Witness ==
    /\ result.ran /\ result.returncode # 0
    /\ phase = "Failed" /\ error = "ExternalToolFailure"
    /\ produced # {} /\ HasProgress(result.stderr)
    /\ MaxTotal(result.stderr) >= 1

\* C8 (as stated): when the pdf exists and the output directory cannot be
\* created, the invocation ends in Failed(IOError) reported by the function
\* itself, and the tool is never run.
C8_IOErrorHandled ==
    (pdfExists /\ ~dirExists0 /\ ~dirCreatable
        /\ phase \notin {"Idle", "ValidatingInput", "PreparingOutputDir"})
    => /\ phase = "Failed" /\ error = "IOError" /\ handled
       /\ invocations = 0

PhaseOrder ==
    { <<"Idle", "ValidatingInput">>,
      <<"ValidatingInput", "PreparingOutputDir">>,
      <<"PreparingOutputDir", "InvokingExternalTool">>,
      <<"InvokingExternalTool", "InterpretingOutput">>,
      <<"InterpretingOutput", "NormalizingFilenames">>,
      <<"NormalizingFilenames", "Done">> }

FailingPhases ==
    {"Idle", "ValidatingInput", "PreparingOutputDir", "InvokingExternalTool",
     "InterpretingOutput", "NormalizingFilenames"}

\* C9: every step that changes the phase moves it to the next phase of
\* Idle, ValidatingInput, PreparingOutputDir, InvokingExternalTool,
\* InterpretingOutput, NormalizingFilenames, Done, or to Failed from a phase
\* other than Done; nothing changes once the phase is Done or Failed; the tool
\* is run at most once, in phase InvokingExternalTool, with the pdf found and
\* the output directory existing.
C9_PhaseOrder ==
    [][ /\ phase' # phase =>
              \/ <<phase, phase'>> \in PhaseOrder
              \/ phase \in FailingPhases /\ phase' = "Failed"
        /\ Terminated => UNCHANGED vars
        /\ invocations' # invocations =>
              /\ invocations = 0 /\ invocations' = 1
              /\ phase = "InvokingExternalTool"
              /\ pdfExists /\ dirExists
      ]_vars

\* C9's case: a run that went through every phase, the directory created on
\* the way and the tool run once.
C9_Witness ==
    /\ phase = "Done" /\ invocations = 1 /\ ~dirExists0 /\ dirExists
    /\ renamed # {}

\* The entry n after the loop has handled the pages below `next`, starting
\* from directory fs.
AfterRenames(fs, next, n) ==
    IF \E p \in 1..(next - 1) : n = OldPpmPath(p)
      THEN "absent"
    ELSE IF \E p \in 1..(next - 1) : n = NewPpmPath(p) /\ PathExists(fs, OldPpmPath(p))
      THEN fs[OldPpmPath(CHOOSE p \in 1..(next - 1) : n = NewPpmPath(p))]
    ELSE fs[n]

\* C10 (as stated): during and after the rename loop every entry the
\* directory had before the loop, other than the native names page-p-p.ppm
\* with p in 1..N, is still there with its content: in particular a
\* page-p.ppm of an earlier run.
C10_NoEntryLost ==
    phase \in {"NormalizingFilenames", "Done"} =>
        \A n \in Names \ Native(num_pages) :
            PathExists(AfterTool, n) => files[n] = AfterTool[n]

\* C10 (amended): the loop changes an entry only by its renames.  After the
\* pages below `page` are handled, each native name of those pages is gone,
\* page-p.ppm holds the content of page-p-p.ppm for each of those pages whose
\* native file existed (replacing a page-p.ppm that was there), and every
\* other entry, a page-p.ppm whose native file was missing included, is as it
\* was before the loop.
C10_OnlyRenamesChange ==
    phase \in {"NormalizingFilenames", "Done"} =>
        \A n \in Names : files[n] = AfterRenames(AfterTool, page, n)

\* C10's case: page-1.ppm of an earlier run and an unrelated file were in the
\* directory, and the tool wrote page 1 again.
C10_Witness ==
    /\ phase = "Done"
    /\ files0[NewPpmPath(1)] = "old" /\ files0[OtherFile] = "old"
    /\ 1 \in produced
    /\ files[NewPpmPath(1)] = "new" /\ files[OtherFile] = "old"

====
